---- MODULE Spec2Model ----
(***************************************************************************)
(* A model of squid-sql (src/v1.py): the Table relation engine (column     *)
(* resolution, cross merge, where filters, select projection, aliasing),   *)
(* the TableLoader cache and the run_query / __main__ driver.              *)
(*                                                                         *)
(* Python values are modelled as follows.  None and the empty string are   *)
(* both falsy and the code only tests `table` and `as` for truthiness, so  *)
(* both are the empty string here.  A dict is a record or a function, a    *)
(* list or tuple is a sequence, a namedtuple is a record.  ColumnConfig    *)
(* indexes stay 0-based as in the code; row[i] is rows[i + 1] here.        *)
(***************************************************************************)
EXTENDS Integers, Sequences, FiniteSets

\* pc                 where the run is: main, from, merge, where, print, done
\*                    (run_query), call / returned (one Table method call),
\*                    chain (Table method calls in sequence)
\* table_cache        TableLoader.table_cache
\* reads              per source name, the open() calls load_table_from_file made
\* used_table_names   run_query's used_table_names
\* used_sources       the source name of each entry of used_table_names
\* tables             run_query's tables
\* query_table        run_query's query_table; the Table the methods are called on
\* all_where_queries  the predicates built and not yet applied
\* output             the lines printed
\* exit_status        the status the process ended with, -1 while it runs
\* last               the last Table method call: its receiver, argument, result
\* steps              the number of Table method calls made in sequence
VARIABLES pc, table_cache, reads, used_table_names, used_sources, tables,
          query_table, all_where_queries, output, exit_status, last, steps

vars == <<pc, table_cache, reads, used_table_names, used_sources, tables,
          query_table, all_where_queries, output, exit_status, last, steps>>

\* ------------------------------------------------------------------ bounds
\* Most `from` entries in one query.
MaxFrom == 2
\* Most `where` entries in one query.
MaxWhere == 2
\* Most `select` entries in one select list.
MaxSelect == 2
\* Most Table method calls in one free sequence of calls.
MaxSteps == 3

\* ------------------------------------------------------- values and errors
None == ""

Ok(v) == [ok |-> TRUE, value |-> v]

\* raise SquidError(...): kind names the raise site, detail what the message
\* interpolates.
Err(kind, detail) == [ok |-> FALSE, err |-> kind, detail |-> detail]

SUPPORTED_COLUMN_TYPES == {"int", "str"}

SUPPORTED_OPS_BY_COLUMN_TYPE ==
    [t \in SUPPORTED_COLUMN_TYPES |->
        IF t = "int" THEN {"=", "!=", ">", ">=", "<", "<="} ELSE {"=", "!="}]

equal_to(left, right) == left = right

not_equal_to(left, right) == left # right

greater_than(left, right) == left > right

greater_than_or_equal_to(left, right) ==
    greater_than(left, right) \/ equal_to(left, right)

less_than(left, right) == left < right

less_than_or_equal_to(left, right) ==
    less_than(left, right) \/ equal_to(left, right)

\* OPERATOR_FUNCS with >= and <= bound to the strict comparisons.
OPERATOR_FUNCS_strict(op, left, right) ==
    CASE op = "="  -> equal_to(left, right)
      [] op = "!=" -> not_equal_to(left, right)
      [] op = ">"  -> greater_than(left, right)
      [] op = ">=" -> greater_than(left, right)
      [] op = "<"  -> less_than(left, right)
      [] op = "<=" -> less_than(left, right)

\* OPERATOR_FUNCS[op](left, right)
OPERATOR_FUNCS(op, left, right) ==
    CASE op = "="  -> equal_to(left, right)
      [] op = "!=" -> not_equal_to(left, right)
      [] op = ">"  -> greater_than(left, right)
      [] op = ">=" -> greater_than_or_equal_to(left, right)
      [] op = "<"  -> less_than(left, right)
      [] op = "<=" -> less_than_or_equal_to(left, right)

ColumnConfig(table, name, type, index) ==
    [table |-> table, name |-> name, type |-> type, index |-> index]

\* Table.__init__
Table(columns, rows) == [columns |-> columns, rows |-> rows]

\* ------------------------------------------------------------ the files
\* The table files on disk, as json.load returns them: the header record
\* (a list of [name, type] pairs) followed by the data rows.
Disk ==
    [f \in {"t.table.json", "u.table.json"} |->
        IF f = "t.table.json"
        THEN << << <<"id", "int">>, <<"label", "str">> >>,
                <<1, "a">>, <<2, "b">>, <<3, "c">> >>
        ELSE << << <<"id", "int">>, <<"v", "int">> >>,
                <<2, 1>>, <<3, 3>> >>]

\* TableLoader.name_to_filename, filename_extra = '.table.json'
name_to_filename(name) == name \o ".table.json"

\* Table.validate_and_construct_col_configs
validate_and_construct_col_configs(table_name, raw_columns) ==
    [i \in 1..Len(raw_columns) |->
        ColumnConfig(table_name, raw_columns[i][1], raw_columns[i][2], i - 1)]

\* Table.from_file: raw_rows.pop(0) is the header, the rest are the rows.
from_file(table_name, raw_rows) ==
    Table(validate_and_construct_col_configs(table_name, Head(raw_rows)),
          Tail(raw_rows))

\* ------------------------------------------------------ column resolution
\* The loop of col_config_by_column_ref: the columns that pass all(conditions).
found_columns_of(self, column_ref) ==
    SelectSeq(self.columns,
              LAMBDA col_config :
                  /\ (column_ref.table # None => col_config.table = column_ref.table)
                  /\ col_config.name = column_ref.name)

\* Table.col_config_by_column_ref, with the qualifier always compared.
col_config_by_column_ref_always_qualified(self, column_ref) ==
    LET found_columns ==
            SelectSeq(self.columns,
                      LAMBDA col_config :
                          /\ col_config.table = column_ref.table
                          /\ col_config.name = column_ref.name)
    IN  IF Len(found_columns) < 1
        THEN Err("ColumnNotFound", column_ref)
        ELSE IF Len(found_columns) > 1
        THEN Err("AmbiguousColumn",
                 [i \in 1..Len(found_columns) |-> found_columns[i].table])
        ELSE Ok(found_columns[1])

\* Table.col_config_by_column_ref
col_config_by_column_ref(self, column_ref) ==
    LET found_columns == found_columns_of(self, column_ref)
    IN  IF Len(found_columns) < 1
        THEN Err("ColumnNotFound", column_ref)
        ELSE IF Len(found_columns) > 1
        THEN Err("AmbiguousColumn",
                 [i \in 1..Len(found_columns) |-> found_columns[i].table])
        ELSE Ok(found_columns[1])

\* ------------------------------------------------------------------ where
\* `'column' in 'right'` (lines 264 and 267): the right operand is the string
\* literal 'right', not the term, so this is a substring test, and it is false.
column_in_str_right == FALSE

\* ColumnToLiteralWhere.__new__
ColumnToLiteralWhere(op, left, right) ==
    IF "column" \in DOMAIN left /\ "column" \in DOMAIN right
    THEN Err("MalformedPredicate", "column-to-column")
    ELSE IF "column" \in DOMAIN left /\ ~column_in_str_right
    THEN Ok([class |-> "ColumnToLiteralWhere", op |-> op, left |-> left,
             right |-> right, column_side |-> "left", literal_side |-> "right"])
    ELSE IF "column" \notin DOMAIN left /\ column_in_str_right
    THEN Ok([class |-> "ColumnToLiteralWhere", op |-> op, left |-> left,
             right |-> right, column_side |-> "right", literal_side |-> "left"])
    ELSE Err("MalformedPredicate", "malformed where expression")

\* ColumnToColumnWhere(**where_query): a plain namedtuple, nothing validated.
ColumnToColumnWhere(op, left, right) ==
    Ok([class |-> "ColumnToColumnWhere", op |-> op, left |-> left, right |-> right])

\* The body of build_where_queries' loop for one raw entry.
build_where_query(where_query) ==
    IF "column" \in DOMAIN where_query.left /\ "column" \in DOMAIN where_query.right
    THEN ColumnToColumnWhere(where_query.op, where_query.left, where_query.right)
    ELSE ColumnToLiteralWhere(where_query.op, where_query.left, where_query.right)

\* build_where_queries: the entries are built in order and the first failure
\* raises, before any predicate is applied.
RECURSIVE build_where_queries(_)
build_where_queries(raw_where_queries) ==
    IF Len(raw_where_queries) = 0
    THEN Ok(<<>>)
    ELSE LET first == build_where_query(Head(raw_where_queries))
         IN  IF ~first.ok
             THEN first
             ELSE LET rest == build_where_queries(Tail(raw_where_queries))
                  IN  IF ~rest.ok THEN rest ELSE Ok(<<first.value>> \o rest.value)

\* ColumnToLiteralWhere.column_term / literal_term
column_term(where_query) ==
    IF where_query.column_side = "left" THEN where_query.left ELSE where_query.right

literal_term(where_query) ==
    IF where_query.literal_side = "left" THEN where_query.left ELSE where_query.right

\* Table.apply_column_to_column_where_query
apply_column_to_column_where_query(self, where_query) ==
    LET left_col == col_config_by_column_ref(self, where_query.left.column)
    IN  IF ~left_col.ok THEN left_col ELSE
    LET right_col == col_config_by_column_ref(self, where_query.right.column)
    IN  IF ~right_col.ok THEN right_col ELSE
        IF left_col.value.type # right_col.value.type
        THEN Err("TypeMismatch", <<left_col.value.name, right_col.value.name>>)
        ELSE IF where_query.op \notin SUPPORTED_OPS_BY_COLUMN_TYPE[left_col.value.type]
        THEN Err("UnsupportedOperator", <<where_query.op, left_col.value.type>>)
        ELSE Ok(Table(self.columns,
                      SelectSeq(self.rows,
                          LAMBDA row : OPERATOR_FUNCS(where_query.op,
                                           row[left_col.value.index + 1],
                                           row[right_col.value.index + 1]))))

\* Table.apply_column_to_literal_where_query
apply_column_to_literal_where_query(self, where_query) ==
    LET col_config == col_config_by_column_ref(self, column_term(where_query).column)
    IN  IF ~col_config.ok THEN col_config ELSE
    LET literal_value_key == "lit_" \o col_config.value.type
    IN  IF literal_value_key \notin DOMAIN literal_term(where_query)
        THEN Err("TypeMismatch", <<col_config.value.name, col_config.value.type>>)
        ELSE IF where_query.op \notin SUPPORTED_OPS_BY_COLUMN_TYPE[col_config.value.type]
        THEN Err("UnsupportedOperator", <<where_query.op, col_config.value.type>>)
        ELSE LET literal_value == literal_term(where_query)[literal_value_key]
             IN  IF where_query.column_side = "left"
                 THEN Ok(Table(self.columns,
                          SelectSeq(self.rows,
                              LAMBDA row : OPERATOR_FUNCS(where_query.op,
                                               row[col_config.value.index + 1],
                                               literal_value))))
                 ELSE Ok(Table(self.columns,
                          SelectSeq(self.rows,
                              LAMBDA row : OPERATOR_FUNCS(where_query.op,
                                               literal_value,
                                               row[col_config.value.index + 1]))))

\* Table.apply_where_query
apply_where_query(self, where_query) ==
    IF where_query.class = "ColumnToLiteralWhere"
    THEN apply_column_to_literal_where_query(self, where_query)
    ELSE apply_column_to_column_where_query(self, where_query)

\* --------------------------------------------------------------- aliasing
\* Table.apply_as_exp
apply_as_exp(self, as_name) ==
    Table([i \in 1..Len(self.columns) |-> [self.columns[i] EXCEPT !.table = as_name]],
          self.rows)

\* ----------------------------------------------------------------- select
\* Table.filter_rows_by_column_indexes
filter_rows_by_column_indexes(self, indexes_to_include) ==
    [r \in 1..Len(self.rows) |->
        [k \in 1..Len(indexes_to_include) |-> self.rows[r][indexes_to_include[k] + 1]]]

\* The dict assignment found_names_by_col[col_config] = col_name: a new key is
\* added, an existing key's value is replaced.
dict_set(d, key, val) ==
    [k \in DOMAIN d \cup {key} |-> IF k = key THEN val ELSE d[k]]

\* found_names_by_col.values()
dict_values(d) == {d[k] : k \in DOMAIN d}

\* The loop of apply_select_queries from entry i on, with the two accumulators
\* it carries; the first failure raises.
RECURSIVE select_loop(_, _, _, _, _)
select_loop(self, raw_select_queries, i, found_columns, found_names_by_col) ==
    IF i > Len(raw_select_queries)
    THEN Ok([found_columns |-> found_columns,
             found_names_by_col |-> found_names_by_col])
    ELSE LET select_query == raw_select_queries[i]
             col_config == col_config_by_column_ref(self, select_query.source.column)
         IN  IF ~col_config.ok THEN col_config ELSE
             LET col_name == IF select_query.as # None
                             THEN select_query.as
                             ELSE col_config.value.name
             IN  IF col_name \in dict_values(found_names_by_col)
                 THEN Err("DuplicateSelectName", col_name)
                 ELSE select_loop(self, raw_select_queries, i + 1,
                                  Append(found_columns, col_config.value),
                                  dict_set(found_names_by_col, col_config.value, col_name))

\* Table.apply_select_queries without the renumbering index=i of the new columns.
apply_select_queries_keeps_index(self, raw_select_queries) ==
    LET found == select_loop(self, raw_select_queries, 1, <<>>, [c \in {} |-> None])
    IN  IF ~found.ok THEN found ELSE
        LET found_columns == found.value.found_columns
            found_names_by_col == found.value.found_names_by_col
            found_indexes == [k \in 1..Len(found_columns) |-> found_columns[k].index]
            new_rows == filter_rows_by_column_indexes(self, found_indexes)
            new_columns ==
                [k \in 1..Len(found_columns) |->
                    [found_columns[k] EXCEPT
                        !.name = found_names_by_col[found_columns[k]]]]
        IN  Ok(Table(new_columns, new_rows))

\* Table.apply_select_queries
apply_select_queries(self, raw_select_queries) ==
    LET found == select_loop(self, raw_select_queries, 1, <<>>, [c \in {} |-> None])
    IN  IF ~found.ok THEN found ELSE
        LET found_columns == found.value.found_columns
            found_names_by_col == found.value.found_names_by_col
            found_indexes == [k \in 1..Len(found_columns) |-> found_columns[k].index]
            new_rows == filter_rows_by_column_indexes(self, found_indexes)
            new_columns ==
                [k \in 1..Len(found_columns) |->
                    [found_columns[k] EXCEPT
                        !.index = k - 1,
                        !.name = found_names_by_col[found_columns[k]]]]
        IN  Ok(Table(new_columns, new_rows))

\* ------------------------------------------------------------------ merge
\* The nested loops of merge_tables: for one_row, for two_row, append one_row + two_row.
RECURSIVE merge_rows(_, _)
merge_rows(one_rows, two_rows) ==
    IF Len(one_rows) = 0
    THEN <<>>
    ELSE [j \in 1..Len(two_rows) |-> Head(one_rows) \o two_rows[j]]
         \o merge_rows(Tail(one_rows), two_rows)

\* Table.merge_tables with the two row loops nested the other way round.
merge_tables_two_major(one, two) ==
    LET to_add == Len(one.columns)
        two_columns_fixed ==
            [i \in 1..Len(two.columns) |->
                [two.columns[i] EXCEPT !.index = two.columns[i].index + to_add]]
        new_rows ==
            [k \in 1..(Len(one.rows) * Len(two.rows)) |->
                one.rows[((k - 1) % Len(one.rows)) + 1]
                \o two.rows[((k - 1) \div Len(one.rows)) + 1]]
    IN  Table(one.columns \o two_columns_fixed, new_rows)

\* Table.merge_tables
merge_tables(one, two) ==
    LET to_add == Len(one.columns)
        two_columns_fixed ==
            [i \in 1..Len(two.columns) |->
                [two.columns[i] EXCEPT !.index = two.columns[i].index + to_add]]
    IN  Table(one.columns \o two_columns_fixed, merge_rows(one.rows, two.rows))

\* ------------------------------------------------------------- presenting
\* Table.printable_rows_with_column_headers
printable_rows_with_column_headers(self) ==
    <<[i \in 1..Len(self.columns) |-> self.columns[i].name], self.rows>>

\* pretty_print_table: what is printed, as the header names and the rows it
\* lays out (the padding and the divider widths are not modelled).
pretty_print_table(table) ==
    LET printable == printable_rows_with_column_headers(table)
    IN  [kind |-> "table", columns |-> printable[1], rows |-> printable[2]]

\* ------------------------------------------------------------ TableLoader
\* TableLoader.load_table_from_file with the cache it is given: the table it
\* returns, the cache afterwards, the open() calls made and the lines printed.
load_table_from_file(cache, table_name) ==
    LET filename == name_to_filename(table_name)
    IN  IF filename \notin DOMAIN Disk
        THEN [ok |-> FALSE, err |-> "TableNotFound", detail |-> table_name,
              cache |-> cache, opened |-> 1, printed |-> <<>>]
        ELSE LET raw_rows == Disk[filename]
                 num_rows == Len(raw_rows) - 1
                 table == from_file(table_name, raw_rows)
             IN  [ok |-> TRUE, value |-> table,
                  cache |-> dict_set(cache, table_name, table), opened |-> 1,
                  printed |-> <<[kind |-> "loaded", file |-> filename,
                                 num_rows |-> num_rows]>>]

\* TableLoader.load_or_get_table without the cache lookup.
load_or_get_table_uncached(cache, name) == load_table_from_file(cache, name)

\* TableLoader.load_or_get_table
load_or_get_table(cache, name) ==
    IF name \in DOMAIN cache
    THEN [ok |-> TRUE, value |-> cache[name], cache |-> cache, opened |-> 0,
          printed |-> <<>>]
    ELSE load_table_from_file(cache, name)

\* ------------------------------------------------------- the query inputs
Col(t, n) == [column |-> [table |-> t, name |-> n]]

LitInt(v) == [lit_int |-> v]

LitStr(v) == [lit_str |-> v]

Where(op, l, r) == [op |-> op, left |-> l, right |-> r]

Sel(t, n, a) == [source |-> [column |-> [table |-> t, name |-> n]], as |-> a]

From(f, a) == [source |-> [file |-> f], as |-> a]

\* The source names a query may name; "x" has no file.
SourceNames == {"t", "u", "x"}

Aliases == {None, "a", "b"}

FromEntries == {From(f, a) : f \in SourceNames, a \in Aliases}

\* The where entries the driver is run on: column-to-literal filters, one with
\* the column on the right, column-to-column filters, a literal of the wrong
\* type.
DriverWheres ==
    { Where("<", Col(None, "id"), LitInt(2)),
      Where(">", LitInt(2), Col(None, "id")),
      Where("<=", Col("a", "id"), Col("b", "id")),
      Where(">=", Col("a", "id"), Col("u", "v")),
      Where("!=", Col(None, "label"), LitStr("b")),
      Where("=", Col(None, "label"), LitInt(1)) }

DriverSelects ==
    { Sel(None, "id", None), Sel(None, "id", "x"), Sel("a", "label", None),
      Sel("b", "id", "x"), Sel(None, "v", None) }

SeqsUpTo(S, lo, hi) == UNION {[1..n -> S] : n \in lo..hi}

\* sys.argv[1:]: nothing, a file that does not exist, a query file.
Argvs == {<<>>, <<"nofile.json">>, <<"q.json">>}

QueryFiles == {"q.json"}

\* ------------------------------------------------------------- the driver
NoLast == [op |-> "none"]

NoTable == Table(<<>>, <<>>)

DriverInit ==
    /\ pc = "main"
    /\ table_cache = [n \in {} |-> NoTable]
    /\ reads = [n \in SourceNames |-> 0]
    /\ used_table_names = <<>>
    /\ used_sources = <<>>
    /\ tables = <<>>
    /\ query_table = NoTable
    /\ all_where_queries = <<>>
    /\ output = <<>>
    /\ exit_status = -1
    /\ last = NoLast
    /\ steps = 0

\* The status the process ends with once `except SquidError` has printed the
\* error: the handler returns, the script runs off its end.
exit_status_after_error == 0

\* A SquidError reaching the `except SquidError` of __main__: the error line
\* is printed and the process ends.
Raise(component, e, printed) ==
    /\ pc' = "done"
    /\ output' = output \o printed \o
                 <<[kind |-> "error", component |-> component, message |-> e.err]>>
    /\ exit_status' = exit_status_after_error

\* __main__ and parse_query_file_and_run_query up to the call of run_query.
Main ==
    /\ pc = "main"
    /\ \E argv \in Argvs :
          IF Len(argv) = 0
          THEN Raise("CLI", Err("UsageError", "no query file provided"), <<>>)
          ELSE IF argv[1] \notin QueryFiles
          THEN Raise("", Err("QueryFileNotFound", argv[1]), <<>>)
          ELSE /\ pc' = "from"
               /\ UNCHANGED <<output, exit_status>>
    /\ UNCHANGED <<table_cache, reads, used_table_names, used_sources, tables,
                   query_table, all_where_queries, last, steps>>

\* One iteration of run_query's `for from_query in raw_from_queries`.
FromStep ==
    /\ pc = "from"
    /\ Len(tables) < MaxFrom
    /\ \E from_query \in FromEntries :
          LET source_table_name == from_query.source.file
              loaded == load_or_get_table(table_cache, source_table_name)
              new_table_name == IF from_query.as # None
                                THEN from_query.as
                                ELSE source_table_name
              new_table == IF new_table_name # source_table_name
                           THEN apply_as_exp(loaded.value, from_query.as)
                           ELSE loaded.value
          IN  /\ table_cache' = loaded.cache
              /\ reads' = [reads EXCEPT ![source_table_name] = @ + loaded.opened]
              /\ IF ~loaded.ok
                 THEN /\ Raise("", loaded, loaded.printed)
                      /\ UNCHANGED <<used_table_names, used_sources, tables>>
                 ELSE IF new_table_name \in {used_table_names[i] :
                                               i \in 1..Len(used_table_names)}
                 THEN /\ Raise("", Err("DuplicateTableName", new_table_name),
                               loaded.printed)
                      /\ UNCHANGED <<used_table_names, used_sources, tables>>
                 ELSE /\ used_table_names' = Append(used_table_names, new_table_name)
                      /\ used_sources' = Append(used_sources, source_table_name)
                      /\ tables' = Append(tables, new_table)
                      /\ output' = output \o loaded.printed
                      /\ UNCHANGED <<pc, exit_status>>
    /\ UNCHANGED <<query_table, all_where_queries, last, steps>>

\* The end of the from loop and `query_table = tables.pop(0)`.
FromDone ==
    /\ pc = "from"
    /\ Len(tables) >= 1
    /\ query_table' = Head(tables)
    /\ tables' = Tail(tables)
    /\ pc' = "merge"
    /\ UNCHANGED <<table_cache, reads, used_table_names, used_sources,
                   all_where_queries, output, exit_status, last, steps>>

\* One iteration of `while tables`.
MergeStep ==
    /\ pc = "merge"
    /\ Len(tables) > 0
    /\ LET table_to_merge == Head(tables)
           merged == merge_tables(query_table, table_to_merge)
       IN  /\ query_table' = merged
           /\ tables' = Tail(tables)
           /\ last' = [op |-> "merge", one |-> query_table, two |-> table_to_merge,
                       result |-> Ok(merged)]
    /\ UNCHANGED <<pc, table_cache, reads, used_table_names, used_sources,
                   all_where_queries, output, exit_status, steps>>

\* `if raw_where_queries: all_where_queries = build_where_queries(...)`
BuildWhere ==
    /\ pc = "merge"
    /\ Len(tables) = 0
    /\ \E raw_where_queries \in SeqsUpTo(DriverWheres, 0, MaxWhere) :
          LET built == build_where_queries(raw_where_queries)
          IN  IF ~built.ok
              THEN /\ Raise("", built, <<>>)
                   /\ UNCHANGED all_where_queries
              ELSE /\ all_where_queries' = built.value
                   /\ pc' = "where"
                   /\ UNCHANGED <<output, exit_status>>
    /\ UNCHANGED <<table_cache, reads, used_table_names, used_sources, tables,
                   query_table, last, steps>>

\* One iteration of `for where_query in all_where_queries`.
WhereStep ==
    /\ pc = "where"
    /\ Len(all_where_queries) > 0
    /\ LET where_query == Head(all_where_queries)
           filtered == apply_where_query(query_table, where_query)
       IN  /\ last' = [op |-> "where", self |-> query_table, arg |-> where_query,
                       result |-> filtered]
           /\ IF ~filtered.ok
              THEN /\ Raise("", filtered, <<>>)
                   /\ UNCHANGED <<query_table, all_where_queries>>
              ELSE /\ query_table' = filtered.value
                   /\ all_where_queries' = Tail(all_where_queries)
                   /\ UNCHANGED <<pc, output, exit_status>>
    /\ UNCHANGED <<table_cache, reads, used_table_names, used_sources, tables, steps>>

\* `query_table = query_table.apply_select_queries(raw_select_queries)`
SelectStep ==
    /\ pc = "where"
    /\ Len(all_where_queries) = 0
    /\ \E raw_select_queries \in SeqsUpTo(DriverSelects, 1, MaxSelect) :
          LET selected == apply_select_queries(query_table, raw_select_queries)
          IN  /\ last' = [op |-> "select", self |-> query_table,
                          arg |-> raw_select_queries, result |-> selected]
              /\ IF ~selected.ok
                 THEN /\ Raise("", selected, <<>>)
                      /\ UNCHANGED query_table
                 ELSE /\ query_table' = selected.value
                      /\ pc' = "print"
                      /\ UNCHANGED <<output, exit_status>>
    /\ UNCHANGED <<table_cache, reads, used_table_names, used_sources, tables,
                   all_where_queries, steps>>

\* The status the process ends with when run_query returns.
exit_status_after_success == 0

\* `pretty_print_table(query_table)`, after which the process ends.
PrintStep ==
    /\ pc = "print"
    /\ output' = Append(output, pretty_print_table(query_table))
    /\ pc' = "done"
    /\ exit_status' = exit_status_after_success
    /\ UNCHANGED <<table_cache, reads, used_table_names, used_sources, tables,
                   query_table, all_where_queries, last, steps>>

Init == DriverInit

Next ==
    \/ Main
    \/ FromStep
    \/ FromDone
    \/ MergeStep
    \/ BuildWhere
    \/ WhereStep
    \/ SelectStep
    \/ PrintStep

Spec == Init /\ [][Next]_vars

\* ------------------------------------------- the Table methods, one call
\* The relation run_query holds after its from loop and its merge loop, for a
\* from list that raises nothing.
RECURSIVE fold_merge(_, _)
fold_merge(table, rest) ==
    IF Len(rest) = 0
    THEN table
    ELSE fold_merge(merge_tables(table, Head(rest)), Tail(rest))

new_table_name_of(from_query) ==
    IF from_query.as # None THEN from_query.as ELSE from_query.source.file

new_table_of(from_query) ==
    LET loaded == from_file(from_query.source.file,
                            Disk[name_to_filename(from_query.source.file)])
    IN  IF new_table_name_of(from_query) # from_query.source.file
        THEN apply_as_exp(loaded, from_query.as)
        ELSE loaded

working_relation(from_queries) ==
    fold_merge(new_table_of(from_queries[1]),
               [i \in 1..(Len(from_queries) - 1) |-> new_table_of(from_queries[i + 1])])

\* The from lists the calls start from: the sources that have a file, no
\* alias or the alias "a", no working name declared twice.
StartFromLists ==
    {fl \in SeqsUpTo({From(f, a) : f \in {"t", "u"}, a \in {None, "a"}}, 1, MaxFrom) :
        \A i, j \in 1..Len(fl) :
            i # j => new_table_name_of(fl[i]) # new_table_name_of(fl[j])}

RefQualifiers == {None, "a", "t", "u"}

RefNames == {"id", "label", "v"}

ColumnRefs == {[table |-> t, name |-> n] : t \in RefQualifiers, n \in RefNames}

Terms == {[column |-> c] : c \in ColumnRefs} \cup {LitInt(2), LitStr("b")}

\* The six operators of OPERATOR_FUNCS and one that is in no table.
Ops == {"=", "!=", ">", ">=", "<", "<=", "~"}

WhereEntries == {Where(op, l, r) : op \in Ops, l \in Terms, r \in Terms}

SelectEntries ==
    {[source |-> [column |-> c], as |-> a] : c \in ColumnRefs, a \in {None, "x"}}

\* The relation of a from list, with the working names and the sources it was
\* made from, before one method is called on it.
TableInit ==
    /\ pc = "call"
    /\ \E fl \in StartFromLists :
          /\ query_table = working_relation(fl)
          /\ used_table_names = [i \in 1..Len(fl) |-> new_table_name_of(fl[i])]
          /\ used_sources = [i \in 1..Len(fl) |-> fl[i].source.file]
    /\ table_cache = [n \in {} |-> NoTable]
    /\ reads = [n \in SourceNames |-> 0]
    /\ tables = <<>>
    /\ all_where_queries = <<>>
    /\ output = <<>>
    /\ exit_status = -1
    /\ last = NoLast
    /\ steps = 0

\* query_table.col_config_by_column_ref(column_ref)
CallResolve ==
    /\ pc = "call"
    /\ \E column_ref \in ColumnRefs :
          last' = [op |-> "resolve", self |-> query_table, arg |-> column_ref,
                   result |-> col_config_by_column_ref(query_table, column_ref)]
    /\ pc' = "returned"
    /\ UNCHANGED <<table_cache, reads, used_table_names, used_sources, tables,
                   query_table, all_where_queries, output, exit_status, steps>>

\* build_where_queries([where_query]) and, when it raises nothing,
\* query_table.apply_where_query of the predicate built.
where_result(self, where_query) ==
    LET built == build_where_query(where_query)
    IN  IF ~built.ok THEN built ELSE apply_where_query(self, built.value)

CallWhere ==
    /\ pc = "call"
    /\ \E where_query \in WhereEntries :
          LET filtered == where_result(query_table, where_query)
          IN  /\ last' = [op |-> "where", self |-> query_table, arg |-> where_query,
                          result |-> filtered]
              /\ query_table' = IF filtered.ok THEN filtered.value ELSE query_table
    /\ pc' = "returned"
    /\ UNCHANGED <<table_cache, reads, used_table_names, used_sources, tables,
                   all_where_queries, output, exit_status, steps>>

\* query_table.apply_select_queries(raw_select_queries)
CallSelect ==
    /\ pc = "call"
    /\ \E raw_select_queries \in SeqsUpTo(SelectEntries, 1, MaxSelect) :
          LET selected == apply_select_queries(query_table, raw_select_queries)
          IN  /\ last' = [op |-> "select", self |-> query_table,
                          arg |-> raw_select_queries, result |-> selected]
              /\ query_table' = IF selected.ok THEN selected.value ELSE query_table
    /\ pc' = "returned"
    /\ UNCHANGED <<table_cache, reads, used_table_names, used_sources, tables,
                   all_where_queries, output, exit_status, steps>>

TableNext ==
    \/ CallResolve
    \/ CallWhere
    \/ CallSelect

SpecTable == TableInit /\ [][TableNext]_vars

\* ------------------------------------- the Table methods, called in sequence
ChainWheres ==
    { Where("<", Col(None, "id"), LitInt(2)),
      Where("!=", Col(None, "label"), LitStr("b")),
      Where(">=", Col("a", "id"), Col("t", "id")),
      Where("=", Col(None, "x"), Col(None, "v")) }

ChainSelects ==
    { <<Sel(None, "id", "x")>>,
      <<Sel(None, "label", None), Sel(None, "id", None)>>,
      <<Sel(None, "id", None), Sel(None, "id", "x")>>,
      <<Sel("a", "id", "x"), Sel(None, "v", None)>>,
      <<Sel("b", "label", None), Sel("t", "id", "y"), Sel("b", "id", None)>>,
      <<Sel(None, "x", None)>> }

\* A relation as loaded from its file.
ChainInit ==
    /\ pc = "chain"
    /\ \E n \in {"t", "u"} : query_table = from_file(n, Disk[name_to_filename(n)])
    /\ table_cache = [n \in {} |-> NoTable]
    /\ reads = [n \in SourceNames |-> 0]
    /\ used_table_names = <<>>
    /\ used_sources = <<>>
    /\ tables = <<>>
    /\ all_where_queries = <<>>
    /\ output = <<>>
    /\ exit_status = -1
    /\ last = NoLast
    /\ steps = 0

ChainFrame ==
    /\ steps' = steps + 1
    /\ UNCHANGED <<pc, table_cache, reads, used_table_names, used_sources, tables,
                   all_where_queries, output, exit_status>>

\* query_table.apply_as_exp(as_name)
ChainAsExp ==
    /\ pc = "chain"
    /\ steps < MaxSteps
    /\ \E as_name \in {"a", "b"} :
          LET aliased == apply_as_exp(query_table, as_name)
          IN  /\ query_table' = aliased
              /\ last' = [op |-> "as", self |-> query_table, arg |-> as_name,
                          result |-> Ok(aliased)]
    /\ ChainFrame

\* Table.merge_tables of query_table and a loaded table, on either side
ChainMerge ==
    /\ pc = "chain"
    /\ steps < MaxSteps
    /\ \E n \in {"t", "u"} : \E loaded_first \in BOOLEAN :
          LET loaded == from_file(n, Disk[name_to_filename(n)])
              one == IF loaded_first THEN loaded ELSE query_table
              two == IF loaded_first THEN query_table ELSE loaded
              merged == merge_tables(one, two)
          IN  /\ query_table' = merged
              /\ last' = [op |-> "merge", one |-> one, two |-> two,
                          result |-> Ok(merged)]
    /\ ChainFrame

\* query_table.apply_where_query of a predicate build_where_queries built
ChainWhere ==
    /\ pc = "chain"
    /\ steps < MaxSteps
    /\ \E where_query \in ChainWheres :
          LET filtered == where_result(query_table, where_query)
          IN  /\ last' = [op |-> "where", self |-> query_table, arg |-> where_query,
                          result |-> filtered]
              /\ query_table' = IF filtered.ok THEN filtered.value ELSE query_table
    /\ ChainFrame

\* query_table.apply_select_queries(raw_select_queries)
ChainSelect ==
    /\ pc = "chain"
    /\ steps < MaxSteps
    /\ \E raw_select_queries \in ChainSelects :
          LET selected == apply_select_queries(query_table, raw_select_queries)
          IN  /\ last' = [op |-> "select", self |-> query_table,
                          arg |-> raw_select_queries, result |-> selected]
              /\ query_table' = IF selected.ok THEN selected.value ELSE query_table
    /\ ChainFrame

ChainNext ==
    \/ ChainAsExp
    \/ ChainMerge
    \/ ChainWhere
    \/ ChainSelect

SpecChain == ChainInit /\ [][ChainNext]_vars

\* --------------------------------------------------------- the properties
\* The positions of the columns a reference names: the name is equal and,
\* when the reference has a qualifier, the qualifier is equal.
Positions(R, ref) ==
    {i \in 1..Len(R.columns) :
        /\ R.columns[i].name = ref.name
        /\ (ref.table = None \/ R.columns[i].table = ref.table)}

Resolves(R, ref) == Cardinality(Positions(R, ref)) = 1

Resolved(R, ref) == R.columns[CHOOSE i \in Positions(R, ref) : TRUE]

Fails(res, kind) == ~res.ok /\ res.err = kind

IsColumnTerm(term) == "column" \in DOMAIN term

LiteralType(term) == IF "lit_int" \in DOMAIN term THEN "int" ELSE "str"

LiteralValue(term) == IF "lit_int" \in DOMAIN term THEN term.lit_int ELSE term.lit_str

AllowedOperators(type) ==
    IF type = "int" THEN {"=", "!=", ">", ">=", "<", "<="} ELSE {"=", "!="}

Compare(op, a, b) ==
    CASE op = "="  -> a = b
      [] op = "!=" -> a # b
      [] op = ">"  -> a > b
      [] op = ">=" -> a >= b
      [] op = "<"  -> a < b
      [] op = "<=" -> a <= b

\* Whether a row of R satisfies the predicate a where entry states.
Satisfies(R, w, row) ==
    IF IsColumnTerm(w.left) /\ IsColumnTerm(w.right)
    THEN Compare(w.op, row[Resolved(R, w.left.column).index + 1],
                       row[Resolved(R, w.right.column).index + 1])
    ELSE IF IsColumnTerm(w.left)
    THEN Compare(w.op, row[Resolved(R, w.left.column).index + 1], LiteralValue(w.right))
    ELSE Compare(w.op, LiteralValue(w.left), row[Resolved(R, w.right.column).index + 1])

\* The header of a source's file and the number of its data rows.
SourceHeader(n) == Head(Disk[name_to_filename(n)])

SourceRowCount(n) == Len(Disk[name_to_filename(n)]) - 1

HeaderPositions(n, name) == {i \in 1..Len(SourceHeader(n)) : SourceHeader(n)[i][1] = name}

\* The display name a select entry produces.
DisplayName(R, entry) ==
    IF entry.as # None THEN entry.as ELSE Resolved(R, entry.source.column).name

\* C1: a where entry with one column term and one literal term of the column's
\* type and an operator allowed for the type succeeds and keeps exactly the
\* rows with compare(row[col.index], literal) when the column is the left
\* term, and exactly the rows with compare(literal, row[col.index]) when the
\* column is the right term.
C1_ColumnLiteralFilter ==
    (pc = "returned" /\ last.op = "where"
        /\ IsColumnTerm(last.arg.left) # IsColumnTerm(last.arg.right)) =>
    LET R == last.self
        w == last.arg
        col == IF IsColumnTerm(w.left) THEN w.left.column ELSE w.right.column
        lit == IF IsColumnTerm(w.left) THEN w.right ELSE w.left
    IN  (/\ Resolves(R, col)
         /\ LiteralType(lit) = Resolved(R, col).type
         /\ w.op \in AllowedOperators(Resolved(R, col).type)) =>
        /\ last.result.ok
        /\ last.result.value.rows = SelectSeq(R.rows, LAMBDA row : Satisfies(R, w, row))

\* C2: a select list of k entries that succeeds yields k columns in select
\* list order, column i with index i, the entry's rename or else the resolved
\* column's name, and the resolved column's qualifier and type; the rows are
\* as many as the input's, row j being input row j's values at the resolved
\* columns' indexes in select list order.
C2_ProjectionCatalog ==
    (pc = "returned" /\ last.op = "select" /\ last.result.ok) =>
    LET R == last.self
        S == last.arg
        out == last.result.value
    IN  /\ Len(out.columns) = Len(S)
        /\ \A i \in 1..Len(S) :
              out.columns[i] =
                  [table |-> Resolved(R, S[i].source.column).table,
                   name |-> DisplayName(R, S[i]),
                   type |-> Resolved(R, S[i].source.column).type,
                   index |-> i - 1]
        /\ Len(out.rows) = Len(R.rows)
        /\ \A j \in 1..Len(R.rows) :
              out.rows[j] =
                  [i \in 1..Len(S) |->
                      R.rows[j][Resolved(R, S[i].source.column).index + 1]]

\* C3: a select list whose entries all resolve fails with DuplicateSelectName
\* exactly when two entries produce the same display name, and every relation
\* apply_select_queries returns has pairwise distinct column names.
C3_DuplicateSelectName ==
    (pc = "returned" /\ last.op = "select"
        /\ \A i \in 1..Len(last.arg) : Resolves(last.self, last.arg[i].source.column)) =>
    LET R == last.self
        S == last.arg
        duplicate == \E i, j \in 1..Len(S) :
                        i < j /\ DisplayName(R, S[i]) = DisplayName(R, S[j])
    IN  /\ duplicate <=> Fails(last.result, "DuplicateSelectName")
        /\ last.result.ok =>
              \A i, j \in 1..Len(last.result.value.columns) :
                  i < j => last.result.value.columns[i].name
                           # last.result.value.columns[j].name

\* C4: col_config_by_column_ref considers exactly the columns with the
\* reference's name and, when it has one, its qualifier; no match fails with
\* ColumnNotFound, several fail with AmbiguousColumn naming every matching
\* qualifier, one is returned, and the relation is not changed.  On the merge
\* of two sources that both have the column, the unqualified reference is
\* ambiguous and the reference qualified with one source's working name
\* returns that source's column.
C4_Resolution ==
    (pc = "returned" /\ last.op = "resolve") =>
    LET R == last.self
        ref == last.arg
        res == last.result
        m == Positions(R, ref)
    IN  /\ query_table = R
        /\ m = {} => Fails(res, "ColumnNotFound")
        /\ Cardinality(m) > 1 =>
              /\ Fails(res, "AmbiguousColumn")
              /\ Len(res.detail) = Cardinality(m)
              /\ \A i \in m : \E k \in 1..Len(res.detail) :
                    res.detail[k] = R.columns[i].table
        /\ Cardinality(m) = 1 => res.ok /\ \A i \in m : res.value = R.columns[i]
        /\ (/\ Len(used_sources) = 2
            /\ HeaderPositions(used_sources[1], ref.name) # {}
            /\ HeaderPositions(used_sources[2], ref.name) # {}) =>
              /\ ref.table = None =>
                    Fails(res, "AmbiguousColumn") /\ res.detail = used_table_names
              /\ \A k \in 1..2 :
                    ref.table = used_table_names[k] =>
                        /\ res.ok
                        /\ \A h \in HeaderPositions(used_sources[k], ref.name) :
                              res.value =
                                  [table |-> used_table_names[k],
                                   name |-> ref.name,
                                   type |-> SourceHeader(used_sources[k])[h][2],
                                   index |-> h - 1 +
                                       (IF k = 2
                                        THEN Len(SourceHeader(used_sources[1]))
                                        ELSE 0)]

C4_Witness ==
    /\ pc = "returned"
    /\ last.op = "resolve"
    /\ Len(used_sources) = 2
    /\ used_table_names[2] = "a"
    /\ last.arg = [table |-> "a", name |-> "id"]
    /\ HeaderPositions(used_sources[1], "id") # {}
    /\ last.result.ok
    /\ last.result.value.index = Len(SourceHeader(used_sources[1]))

\* C5: a predicate is validated in the order resolve, type check, operator
\* check: a literal of another type than the resolved column's, or two
\* columns of different types, fail with TypeMismatch whatever the operator;
\* equal types and an operator not allowed for the type fail with
\* UnsupportedOperator; otherwise evaluation succeeds; a failure produces no
\* filtered relation.
C5_ValidationOrder ==
    (pc = "returned" /\ last.op = "where") =>
    LET R == last.self
        w == last.arg
        res == last.result
        col == IF IsColumnTerm(w.left) THEN w.left.column ELSE w.right.column
        lit == IF IsColumnTerm(w.left) THEN w.right ELSE w.left
    IN  /\ (IsColumnTerm(w.left) # IsColumnTerm(w.right) /\ Resolves(R, col)) =>
              IF LiteralType(lit) # Resolved(R, col).type
              THEN Fails(res, "TypeMismatch")
              ELSE IF w.op \notin AllowedOperators(Resolved(R, col).type)
              THEN Fails(res, "UnsupportedOperator")
              ELSE res.ok
        /\ (/\ IsColumnTerm(w.left) /\ IsColumnTerm(w.right)
            /\ Resolves(R, w.left.column) /\ Resolves(R, w.right.column)) =>
              IF Resolved(R, w.left.column).type # Resolved(R, w.right.column).type
              THEN Fails(res, "TypeMismatch")
              ELSE IF w.op \notin AllowedOperators(Resolved(R, w.left.column).type)
              THEN Fails(res, "UnsupportedOperator")
              ELSE res.ok
        /\ ~res.ok => query_table = R

\* The catalog and the row count of the fold over the first k declared sources.
RECURSIVE ExpectedColumns(_)
ExpectedColumns(k) ==
    IF k = 0
    THEN <<>>
    ELSE LET before == ExpectedColumns(k - 1)
             header == SourceHeader(used_sources[k])
         IN  before \o
             [i \in 1..Len(header) |->
                 [table |-> used_table_names[k], name |-> header[i][1],
                  type |-> header[i][2], index |-> Len(before) + i - 1]]

RECURSIVE ExpectedRowCount(_)
ExpectedRowCount(k) ==
    IF k = 0 THEN 1 ELSE ExpectedRowCount(k - 1) * SourceRowCount(used_sources[k])

\* C6: merge_tables(A, B) of m and n rows, p and q columns, has m*n rows and
\* p+q columns: A's columns unchanged, then B's with the index shifted by p,
\* and row i*n+j is A.rows[i] followed by B.rows[j].  The fold of run_query
\* over the declared sources has the sources' columns in declaration order
\* and as many rows as the product of the sources' row counts.
C6_MergeCardinality ==
    /\ last.op = "merge" =>
          LET A == last.one
              B == last.two
              M == last.result.value
              m == Len(A.rows)
              n == Len(B.rows)
              p == Len(A.columns)
              q == Len(B.columns)
          IN  /\ Len(M.rows) = m * n
              /\ Len(M.columns) = p + q
              /\ \A i \in 1..p : M.columns[i] = A.columns[i]
              /\ \A i \in 1..q :
                    M.columns[p + i] =
                        [table |-> B.columns[i].table, name |-> B.columns[i].name,
                         type |-> B.columns[i].type, index |-> B.columns[i].index + p]
              /\ \A i \in 0..(m - 1) : \A j \in 0..(n - 1) :
                    M.rows[i * n + j + 1] = A.rows[i + 1] \o B.rows[j + 1]
    /\ pc = "merge" =>
          LET k == Len(used_sources) - Len(tables)
          IN  /\ query_table.columns = ExpectedColumns(k)
              /\ Len(query_table.rows) = ExpectedRowCount(k)

C6_Witness ==
    /\ pc = "merge"
    /\ Len(tables) = 0
    /\ last.op = "merge"
    /\ Len(last.one.rows) # Len(last.two.rows)
    /\ Len(query_table.rows) = Len(last.one.rows) * Len(last.two.rows)
    /\ Len(query_table.rows) > Len(last.one.rows)

\* C7: a where predicate that validates against R returns R's columns
\* unchanged and exactly the rows of R that satisfy it, in their order in R;
\* and for two predicates P and Q that validate against R, P then Q yields
\* the same rows in the same order as Q then P: the rows of R satisfying both.
C7_FilterStableAndCommutes ==
    (pc = "returned" /\ last.op = "where" /\ last.result.ok) =>
    LET R == last.self
        P == last.arg
        RP == last.result.value
    IN  /\ RP.columns = R.columns
        /\ RP.rows = SelectSeq(R.rows, LAMBDA row : Satisfies(R, P, row))
        /\ \A Q \in WhereEntries :
              where_result(R, Q).ok =>
                  LET RQ == where_result(R, Q).value
                      RPQ == where_result(RP, Q)
                      RQP == where_result(RQ, P)
                  IN  /\ RPQ.ok
                      /\ RQP.ok
                      /\ RPQ.value.columns = R.columns
                      /\ RPQ.value.rows = RQP.value.rows
                      /\ RPQ.value.rows =
                             SelectSeq(R.rows,
                                 LAMBDA row : Satisfies(R, P, row) /\ Satisfies(R, Q, row))

C7_Witness ==
    /\ pc = "returned"
    /\ last.op = "where"
    /\ last.result.ok
    /\ last.arg.op = ">="
    /\ IsColumnTerm(last.arg.left) /\ IsColumnTerm(last.arg.right)
    /\ Len(last.result.value.rows) < Len(last.self.rows)
    /\ \E Q \in WhereEntries :
          /\ ~IsColumnTerm(Q.right)
          /\ where_result(last.self, Q).ok
          /\ where_result(last.result.value, Q).ok
          /\ Len(where_result(last.result.value, Q).value.rows) > 0
          /\ Len(where_result(last.result.value, Q).value.rows)
                 < Len(last.result.value.rows)
          /\ Len(where_result(last.result.value, Q).value.rows)
                 < Len(where_result(last.self, Q).value.rows)

\* C8: a run that ends in a domain failure prints ERROR(<component>): <message>,
\* or ERROR: <message> when no component is tagged, and ends with a non-zero
\* exit status; the status is 0 only on success, after the relation is printed.
C8_ExitStatus ==
    pc = "done" =>
    LET final == output[Len(output)]
    IN  /\ final.kind = "error" =>
              /\ final.component = "CLI" <=> final.message = "UsageError"
              /\ final.component \in {"CLI", ""}
              /\ exit_status # 0
        /\ exit_status = 0 => final.kind = "table"

\* C9: in one query execution each source name is read from its file at most
\* once, on the first from entry that names it; later entries naming it get
\* the cached relation; the cache entry of a name always holds the relation
\* as loaded, qualified by the source name, so two references to one source
\* have equal rows and differ only in the qualifier.
C9_CacheReadOnce ==
    /\ \A n \in SourceNames : reads[n] <= 1
    /\ \A i \in 1..Len(used_sources) : reads[used_sources[i]] = 1
    /\ \A n \in DOMAIN table_cache :
          /\ reads[n] = 1
          /\ table_cache[n].rows = Tail(Disk[name_to_filename(n)])
          /\ table_cache[n].columns =
                 [i \in 1..Len(SourceHeader(n)) |->
                     [table |-> n, name |-> SourceHeader(n)[i][1],
                      type |-> SourceHeader(n)[i][2], index |-> i - 1]]
    /\ pc = "from" =>
          /\ Len(tables) = Len(used_sources)
          /\ \A i \in 1..Len(tables) :
                /\ used_sources[i] \in DOMAIN table_cache
                /\ tables[i].rows = table_cache[used_sources[i]].rows
                /\ tables[i].columns =
                       [k \in 1..Len(table_cache[used_sources[i]].columns) |->
                           [table_cache[used_sources[i]].columns[k] EXCEPT
                               !.table = used_table_names[i]]]

C9_Witness ==
    /\ pc = "from"
    /\ Len(tables) = 2
    /\ used_sources[1] = used_sources[2]
    /\ used_table_names[1] # used_sources[1]
    /\ used_table_names[2] # used_sources[2]
    /\ tables[1].rows = tables[2].rows
    /\ tables[1].columns # tables[2].columns
    /\ reads[used_sources[1]] = 1

\* Each column's index is its place in the catalog and in every row.
WellFormed(R) ==
    /\ \A i \in 1..Len(R.columns) : R.columns[i].index = i - 1
    /\ \A j \in 1..Len(R.rows) : Len(R.rows[j]) = Len(R.columns)

\* C10: every relation reached from a loaded relation by a sequence of
\* apply_as_exp, merge_tables, apply_where_query and apply_select_queries has
\* the column indexes 0..N-1 in catalog order and every row of length N.
C10_PositionsAligned ==
    /\ WellFormed(query_table)
    /\ last.op # "none" /\ last.result.ok /\ last.op # "resolve" =>
          WellFormed(last.result.value)

C10_Witness ==
    /\ pc = "chain"
    /\ last.op = "merge"
    /\ \E i \in 1..Len(last.one.columns) :
          last.one.columns[i].name = "x" /\ last.one.columns[i].table = "a"
    /\ Len(query_table.columns) > Len(last.one.columns)
    /\ Len(query_table.rows) > 0

====
